---- MODULE Spec2Model ----
(***************************************************************************)
(* Model of the operation batch engine of DB_lmdb:                         *)
(*   app/src/core/operations/ops_int/ops_exec.c     (batch, retry loops)   *)
(*   app/src/core/operations/ops_int/ops_actions.c  (txn/put/get wrappers, *)
(*                                                   descriptor resolution)*)
(*   app/src/core/operations/ops_int/security/security.c (error policy)    *)
(* The storage engine (LMDB) is an external collaborator.  It is modelled  *)
(* as a key/value store with transactions whose every call answers with a  *)
(* status chosen nondeterministically among those the call can give.       *)
(***************************************************************************)
EXTENDS Integers, Sequences, FiniteSets, TLC

(***************************************************************************)
(* Bounds of the model.                                                    *)
(***************************************************************************)
\* number of ops_add_operation calls the model makes in one behaviour
MaxEnq == 3
\* number of transaction handles the engine can hand out
MaxTxn == 2
\* number of ops_add_operation calls in a behaviour that fills the batch
MaxFill == 9

(***************************************************************************)
(* Program constants.                                                      *)
(***************************************************************************)
OPS_CACHE_SIZE == 8
DB_LMDB_RETRY_OPS_EXEC == 3
\* KiB(2)
DB_LMDB_RW_OPS_CACHE_SIZE == 2048
\* map sizes in MiB: MiB(256) and GiB(1)
DB_MAP_SIZE_INIT == 256
DB_MAP_SIZE_MAX == 1024

\* a null pointer to a transaction or to the database
NULL == 0
\* a null data pointer inside a descriptor
NullPtr == "null"

(***************************************************************************)
(* Byte strings.  A byte string is its content (id) and its length (size). *)
(* Two byte strings are equal iff both agree.  id 0 is a zeroed buffer.    *)
(***************************************************************************)
SmallSize == 1
BufSize == 2
LargeSize == 1100
B1 == [id |-> 1, size |-> SmallSize]
B2 == [id |-> 2, size |-> LargeSize]
Bytes == {B1, B2}
DataIds == {0, 1, 2}
NoVal == [id |-> 0, size |-> 0]

(***************************************************************************)
(* op_key_t: the tagged descriptor of a key or of a value.                 *)
(***************************************************************************)
\* kind NONE
DescNone ==
    [kind |-> "NONE", size |-> 0, data |-> 0, loc |-> "-", src_type |-> "-", op_index |-> 0]

\* kind PRESENT holding the caller's bytes b
DescPresent(b) ==
    [kind |-> "PRESENT", size |-> b.size, data |-> b.id, loc |-> "user",
     src_type |-> "-", op_index |-> 0]

\* kind PRESENT naming a caller's zeroed destination buffer of cap bytes
DescBuffer(cap) ==
    [kind |-> "PRESENT", size |-> cap, data |-> 0, loc |-> "user",
     src_type |-> "-", op_index |-> 0]

\* kind LOOKUP
DescLookup(src, idx) ==
    [kind |-> "LOOKUP", size |-> 0, data |-> 0, loc |-> "-", src_type |-> src, op_index |-> idx]

\* op_t
Op(dbi, type, key, val) == [dbi |-> dbi, type |-> type, key |-> key, val |-> val]

(***************************************************************************)
(* The environment after a successful db_core_init with three DBIs.        *)
(* The engine numbers named databases from 2: handles 0 and 1 are its own  *)
(* free-list and main databases.                                           *)
(***************************************************************************)
NDbis == 3
DbiHandle(i) == i + 2
DataBase ==
    [ptr |-> 1, env |-> 1, n_dbis |-> NDbis,
     dbis |-> [i \in 0..(NDbis - 1) |-> [dbi |-> DbiHandle(i), put_flags |-> {"MDB_NOOVERWRITE"}]],
     map_size_bytes_max |-> DB_MAP_SIZE_MAX]
UserHandles == {DataBase.dbis[i].dbi : i \in 0..(DataBase.n_dbis - 1)}

(***************************************************************************)
(* The operations the callers enqueue.  A behaviour draws them from one of *)
(* two repertoires: literal keys and values, or back-references.           *)
(***************************************************************************)
PlainOps ==
    { Op(0, "PUT", DescPresent(B1), DescPresent(B2)),
      Op(0, "PUT", DescPresent(B2), DescPresent(B1)),
      Op(2, "GET", DescPresent(B1), DescNone),
      Op(2, "GET", DescPresent(B1), DescBuffer(BufSize)),
      Op(0, "GET", DescPresent(B1), DescNone) }

LookupOps ==
    { Op(0, "PUT", DescPresent(B1), DescPresent(B2)),
      Op(2, "GET", DescPresent(B1), DescNone),
      Op(0, "PUT", DescLookup("VAL", 1), DescPresent(B1)),
      Op(0, "PUT", DescLookup("VAL", 0), DescPresent(B1)),
      Op(2, "GET", DescLookup("KEY", 0), DescNone),
      Op(2, "GET", DescLookup("KEY", 1), DescNone),
      Op(0, "PUT", DescPresent(B2), DescLookup("VAL", 2)) }

\* the operations of a caller who fills the batch
FillOps ==
    { Op(0, "PUT", DescPresent(B1), DescPresent(B2)),
      Op(2, "GET", DescPresent(B1), DescNone) }

Repertoires == {"plain", "lookup"}
OpInputs(r) == IF r = "plain" THEN PlainOps ELSE IF r = "lookup" THEN LookupOps ELSE FillOps
\* the number of ops_add_operation calls a behaviour makes
EnqBound(r) == IF r = "fill" THEN MaxFill ELSE MaxEnq

VARIABLES
    kind,           \* ops_cache.kind
    ops,            \* ops_cache.ops[0 .. n_ops-1]
    rw_cache_used,  \* ops_cache.rw_cache_used
    addRc,          \* what ops_add_operation returned, if it was the last call to return
    execRc,         \* what ops_execute_operations returned, if it was the last call to return
    pc,             \* position of the caller inside ops_execute_operations
    retry_count,    \* local of _exec_rw_ops / _exec_ro_ops
    res,            \* local of _exec_rw_ops / _exec_ro_ops
    txn,            \* local of _exec_rw_ops / _exec_ro_ops
    i,              \* loop index of _exec_ops
    dec,            \* the safety decision the last wrapper returned
    txns,           \* engine: state of every transaction handle
    committed,      \* engine: the committed content of every database handle
    wstore,         \* engine: the content seen by the open write transaction
    mapsize,        \* engine: the current map size
    issued,         \* the data calls issued to the engine in the current attempt
    repertoire,     \* the repertoire the callers draw operations from
    nenq,           \* the number of ops_add_operation calls made so far
    engine_rc,         \* the status handed to security_check when it is called on its own
    aborted,        \* the number of mdb_txn_abort calls that security_check made
    earlier,        \* an earlier call of security_check: its arguments and its answer
    database,       \* the global DataBase of core.c while it is being built and torn down
    env_state,      \* engine: the state of the environment DataBase->env points to
    live_envs,      \* engine: the environments created and not yet closed
    dbi_decls,      \* dbi_names and dbi_types of the db_core_init call in progress or last made
    initRc,         \* what db_core_init returned, if it was the last call to return
    shutRc,         \* what db_core_shutdown returned, if it was the last call to return
    budgets,        \* db_lmdb_dbi_init: open_retry_budget, flags_retry_budget, txn_retry_budget
    owners,         \* for every operation of ops_cache.ops, the caller who enqueued it
    invoker,        \* the caller of the ops_execute_operations call in progress
    enqueuers       \* the callers of ops_add_operation since the last execute returned

batchVars == <<kind, ops, rw_cache_used>>
frameVars == <<pc, retry_count, res, txn, i, dec>>
engineVars == <<txns, committed, wstore, mapsize>>
vars == <<kind, ops, rw_cache_used, addRc, execRc, pc, retry_count, res, txn, i, dec,
          txns, committed, wstore, mapsize, issued, repertoire, nenq, engine_rc, aborted, earlier,
          database, env_state, live_envs, dbi_decls, initRc, shutRc, budgets,
          owners, invoker, enqueuers>>
policyVars == <<engine_rc, aborted, earlier>>
lifeVars == <<database, env_state, live_envs, dbi_decls, initRc, shutRc>>
callVars == <<owners, invoker, enqueuers>>
\* what the batch actions leave alone
sideVars == <<policyVars, lifeVars, budgets>>

\* the retry budgets outside db_lmdb_dbi_init
NoBudgets == [open |-> 0, flags |-> 0, txn |-> 0]

\* the global DataBase of core.c while it is NULL
NoDataBase ==
    [ptr |-> 0, env |-> 0, n_dbis |-> 0, dbis |-> <<>>, map_size_bytes_max |-> 0]

\* db_core_shutdown has not returned
NoReturn == [returned |-> FALSE, size |-> 0]

\* no call of security_check is remembered
NoCall == [rc |-> "none", present |-> FALSE, dec |-> "none", err |-> "none"]

n_ops == Len(ops)
\* ops_cache.ops[j], positions counted from 0 as in the C array
OpAt(j) == ops[j + 1]

_batch_type_from_op_type(type) == IF type = "GET" THEN "RO" ELSE "RW"

\* MDB_RDONLY for a read-only batch, 0 otherwise
_txn_type_from_batch_type == IF kind = "RO" THEN "MDB_RDONLY" ELSE "0"

\* a variant in which the last operation alone decides the batch kind
LastKind(operation) == _batch_type_from_op_type(operation.type)

\* the batch kind ops_add_operation leaves behind
AddKind(operation) ==
    IF kind = "RO" /\ _batch_type_from_op_type(operation.type) = "RW" THEN "RW" ELSE kind

\* ops_add_operation's check of the lookup index
LookupRejected(operation) ==
    operation.key.kind = "LOOKUP" /\ operation.key.op_index > n_ops

\* a variant without the capacity check
NeverFull == FALSE

\* ops_add_operation's capacity check
BatchFull == n_ops >= OPS_CACHE_SIZE

ops_add_operation(operation) ==
    /\ kind' = AddKind(operation)
    /\ IF LookupRejected(operation)
       THEN /\ addRc' = "-EINVAL"
            /\ UNCHANGED <<ops, rw_cache_used>>
       ELSE IF BatchFull
       THEN /\ addRc' = "-ENOMEM"
            /\ UNCHANGED <<ops, rw_cache_used>>
       ELSE /\ ops' = Append(ops, operation)
            /\ addRc' = "0"
            /\ UNCHANGED rw_cache_used

\* the callers who share the batch: application threads, which the batch
\* does not tell apart
NCallers == 2
Callers == 1..NCallers
NoCaller == 0
\* one caller, or in the behaviours of repertoire "shared" several
CallersOf(r) == IF r = "shared" THEN Callers ELSE {1}

Enqueue ==
    /\ pc = "idle"
    /\ nenq < EnqBound(repertoire)
    /\ nenq' = nenq + 1
    /\ execRc' = "none"
    /\ \E c \in CallersOf(repertoire), operation \in OpInputs(repertoire) :
         /\ ops_add_operation(operation)
         /\ owners' = IF addRc' = "0" THEN Append(owners, c) ELSE owners
         /\ enqueuers' = enqueuers \cup {c}
    /\ UNCHANGED <<frameVars, engineVars, issued, repertoire, invoker, sideVars>>

(***************************************************************************)
(* security.c: the error policy.                                           *)
(***************************************************************************)
\* a variant of the retry cases without MDB_BAD_RSLOT
TransientButOne ==
    {"MDB_MAP_RESIZED", "MDB_PAGE_FULL", "MDB_TXN_FULL", "MDB_CURSOR_FULL",
     "MDB_READERS_FULL"}

\* the statuses security_check answers with RETRY
Transient ==
    {"MDB_MAP_RESIZED", "MDB_PAGE_FULL", "MDB_TXN_FULL", "MDB_CURSOR_FULL",
     "MDB_BAD_RSLOT", "MDB_READERS_FULL"}

\* a variant that knows no logic failure
NoLogicFailures == {}

\* the statuses security_check answers with FAIL and no abort
LogicFailures == {"MDB_NOTFOUND", "MDB_KEYEXIST"}

\* a variant of the default case that leaves the transaction alone
DefaultKeeps(t) == FALSE

\* the default case: if(txn) mdb_txn_abort(txn)
DefaultAborts(t) == t # NULL

\* a variant that resizes the map on MDB_PAGE_FULL too
ResizeOnNoSpace(rc) == rc \in {"MDB_MAP_FULL", "MDB_PAGE_FULL"}

\* if(mdb_rc == MDB_MAP_FULL) inside the retry cases
NeedsResize(rc) == rc = "MDB_MAP_FULL"

\* the errno table; a status it does not know passes through negated
_map_mdb_err_to_errno(rc) ==
    CASE rc = "MDB_SUCCESS" -> "0"
      [] rc = "MDB_NOTFOUND" -> "-ENOENT"
      [] rc = "MDB_KEYEXIST" -> "-EEXIST"
      [] rc = "MDB_MAP_FULL" -> "-ENOSPC"
      [] rc = "MDB_DBS_FULL" -> "-ENOSPC"
      [] rc = "MDB_READERS_FULL" -> "-EAGAIN"
      [] rc = "MDB_TXN_FULL" -> "-EOVERFLOW"
      [] rc = "MDB_CURSOR_FULL" -> "-EOVERFLOW"
      [] rc = "MDB_PAGE_FULL" -> "-ENOSPC"
      [] rc = "MDB_MAP_RESIZED" -> "-EAGAIN"
      [] rc = "MDB_INCOMPATIBLE" -> "-EPROTO"
      [] rc = "MDB_VERSION_MISMATCH" -> "-EINVAL"
      [] rc = "MDB_INVALID" -> "-EINVAL"
      [] rc = "MDB_PAGE_NOTFOUND" -> "-EIO"
      [] rc = "MDB_CORRUPTED" -> "-EIO"
      [] rc = "MDB_PANIC" -> "-EIO"
      [] rc = "MDB_BAD_RSLOT" -> "-EBUSY"
      [] rc = "MDB_BAD_TXN" -> "-EINVAL"
      [] rc = "MDB_BAD_VALSIZE" -> "-EINVAL"
      [] rc = "MDB_BAD_DBI" -> "-ESTALE"
      [] OTHER -> "-" \o rc

\* a variant of _expand_env_mapsize that does not look at the maximum
_expand_unchecked(infoFails, setRc) ==
    IF infoFails >= 3 THEN [rc |-> "-EIO", size |-> mapsize]
    ELSE IF setRc # "MDB_SUCCESS" THEN [rc |-> setRc, size |-> mapsize]
    ELSE [rc |-> "MDB_SUCCESS", size |-> mapsize * 2]

\* _expand_env_mapsize: infoFails is the number of mdb_env_info calls that fail
\* before one succeeds, setRc the status of mdb_env_set_mapsize.
\* Yields the return code and the map size afterwards.
_expand_env_mapsize(infoFails, setRc) ==
    LET retries == IF infoFails >= 3 THEN 0 ELSE 3 - infoFails
        desired == mapsize * 2
    IN  IF database.ptr = NULL \/ database.env = NULL THEN [rc |-> "-EIO", size |-> mapsize]
        ELSE IF retries = 0 THEN [rc |-> "-EIO", size |-> mapsize]
        ELSE IF desired > database.map_size_bytes_max
        THEN [rc |-> "MDB_MAP_FULL", size |-> mapsize]
        ELSE IF setRc # "MDB_SUCCESS" THEN [rc |-> setRc, size |-> mapsize]
        ELSE [rc |-> "MDB_SUCCESS", size |-> desired]

\* security_check(mdb_rc, t, out_errno): the decision, the value left in
\* *out_errno, whether mdb_txn_abort(t) is called and the map size afterwards.
\* errBefore is *out_errno before the call, expand the outcome of
\* _expand_env_mapsize should the policy call it.
security_check(mdb_rc, t, errBefore, expand) ==
    IF mdb_rc = "MDB_SUCCESS"
    THEN [dec |-> "SUCCESS", err |-> errBefore, aborts |-> FALSE, size |-> mapsize]
    ELSE IF mdb_rc \in Transient /\ ~NeedsResize(mdb_rc)
    THEN [dec |-> "RETRY", err |-> _map_mdb_err_to_errno(mdb_rc), aborts |-> (t # NULL),
          size |-> mapsize]
    ELSE IF NeedsResize(mdb_rc)
    THEN [dec |-> IF expand.rc = "MDB_SUCCESS" THEN "RETRY" ELSE "FAIL",
          err |-> _map_mdb_err_to_errno(mdb_rc), aborts |-> (t # NULL), size |-> expand.size]
    ELSE IF mdb_rc \in LogicFailures
    THEN [dec |-> "FAIL", err |-> _map_mdb_err_to_errno(mdb_rc), aborts |-> FALSE,
          size |-> mapsize]
    ELSE [dec |-> "FAIL", err |-> _map_mdb_err_to_errno(mdb_rc), aborts |-> DefaultAborts(t),
          size |-> mapsize]

\* the outcomes of _expand_env_mapsize the engine can cause
ExpandOutcomes ==
    {_expand_env_mapsize(f, s) : f \in {0, 3}, s \in {"MDB_SUCCESS", "EINVAL"}}

(***************************************************************************)
(* ops_actions.c: descriptor resolution.                                   *)
(***************************************************************************)
ResNull == [r |-> "null", id |-> 0, size |-> 0, steps |-> 0]
ResOk(id, size) == [r |-> "ok", id |-> id, size |-> size, steps |-> 0]
\* the recursion never returns
ResDiverge == [r |-> "diverge", id |-> 0, size |-> 0, steps |-> 0]
\* a read outside ops_cache.ops[0 .. n_ops-1]
ResOutOfBounds == [r |-> "oob", id |-> 0, size |-> 0, steps |-> 0]

Step(x) == [x EXCEPT !.steps = @ + 1]

\* a variant that counts the index from the start of the batch
AbsoluteTarget(b, op_index) == op_index

\* the position of lookup_op = base - desc->lookup.op_index
LookupTarget(b, op_index) == b - op_index

\* _resolve_desc(base, desc) with base = &ops_cache.ops[b].  fuel bounds the
\* recursion depth: a chain that visits more descriptors than the batch holds
\* visits one of them twice and so never ends.
RECURSIVE _resolve_desc(_, _, _)
_resolve_desc(b, desc, fuel) ==
    IF fuel = 0 THEN ResDiverge
    ELSE IF desc.kind = "NONE" THEN ResNull
    ELSE IF desc.kind = "PRESENT"
    THEN IF desc.loc = NullPtr \/ desc.size = 0 THEN ResNull ELSE ResOk(desc.data, desc.size)
    ELSE IF desc.kind = "LOOKUP"
    THEN LET l == LookupTarget(b, desc.op_index)
         IN  IF l < 0 \/ l >= n_ops THEN ResOutOfBounds
             ELSE IF desc.src_type = "KEY" THEN Step(_resolve_desc(l, OpAt(l).key, fuel - 1))
             ELSE IF desc.src_type = "VAL" THEN Step(_resolve_desc(l, OpAt(l).val, fuel - 1))
             ELSE ResNull
    ELSE ResNull

Fuel == 2 * n_ops + 1
_get_key(b) == _resolve_desc(b, OpAt(b).key, Fuel)
_get_val(b) == _resolve_desc(b, OpAt(b).val, Fuel)

\* What a resolution can give the caller.  Reading before the start of the
\* array is undefined: the bytes found there can be any descriptor.
Outcomes(x) ==
    IF x.r = "oob"
    THEN {ResNull, ResDiverge} \cup {ResOk(bb.id, bb.size) : bb \in Bytes}
    ELSE {x}

(***************************************************************************)
(* The engine.                                                             *)
(***************************************************************************)
TxnHandles == 1..MaxTxn
FreeTxns == {h \in TxnHandles : txns[h] = "free"}
\* the handle mdb_txn_begin hands out
NewTxn == CHOOSE h \in FreeTxns : \A g \in FreeTxns : h <= g
EmptyDb == [d \in DataIds |-> NoVal]
\* what transaction t reads
View(t) == IF txns[t] = "rw" THEN wstore ELSE committed

\* mdb_txn_begin of a write transaction waits for the writer lock for as long
\* as another write transaction is open
BeginBlocks(flags) == flags = "0" /\ \E h \in TxnHandles : txns[h] = "rw"

\* the statuses of mdb_txn_begin: a thread has one reader slot, and a second
\* read-only transaction on it is refused
BeginStatuses(flags) ==
    LET readerOpen == \E h \in TxnHandles : txns[h] = "ro"
    IN  (IF FreeTxns # {} /\ ~(flags = "MDB_RDONLY" /\ readerOpen)
         THEN {"MDB_SUCCESS"} ELSE {})
        \cup (IF flags = "MDB_RDONLY" /\ readerOpen THEN {"MDB_BAD_RSLOT"} ELSE {})
        \cup (IF FreeTxns = {} THEN {"ENOMEM"} ELSE {})
        \cup {"MDB_MAP_RESIZED", "MDB_PANIC"}

\* the statuses of mdb_put(t, h, k, v, flags)
PutStatuses(t, h, k, flags) ==
    IF h \notin UserHandles THEN {"EINVAL"}
    ELSE (IF wstore[h][k.id] # NoVal /\ "MDB_NOOVERWRITE" \in flags
          THEN {"MDB_KEYEXIST"} ELSE {"MDB_SUCCESS"})
         \cup {"MDB_MAP_FULL", "MDB_TXN_FULL", "MDB_BAD_VALSIZE"}

\* the statuses of mdb_get(t, h, k, &out): handle 0 is the engine's free-list
\* database, which no caller may read, handle 1 its main database
GetStatuses(t, h, k) ==
    IF h \notin UserHandles
    THEN IF h = 1 THEN {"MDB_NOTFOUND"} ELSE {"EINVAL"}
    ELSE (IF View(t)[h][k.id] = NoVal THEN {"MDB_NOTFOUND"} ELSE {"MDB_SUCCESS"})
         \cup {"MDB_MAP_RESIZED", "MDB_PANIC"}

\* the statuses of mdb_txn_commit
CommitStatuses == {"MDB_SUCCESS", "MDB_MAP_FULL", "MDB_PANIC"}

\* mdb_txn_abort(t) on an open transaction
AbortTxn(t) == [txns EXCEPT ![t] = "free"]

\* one data call as the engine sees it
Call(name, pos, h, k, v) ==
    [call |-> name, pos |-> pos, dbi |-> h, key |-> [id |-> k.id, size |-> k.size],
     val |-> [id |-> v.id, size |-> v.size], txn |-> txn]

(***************************************************************************)
(* ops_exec.c: ops_execute_operations, _exec_rw_ops, _exec_ro_ops.         *)
(***************************************************************************)
\* ops_execute_operations on an empty batch
ExecuteEmpty ==
    /\ pc = "idle"
    /\ n_ops = 0
    /\ execRc' = "-EINVAL"
    /\ addRc' = "none"
    /\ initRc' = "none"
    /\ shutRc' = NoReturn
    /\ enqueuers' = {}
    /\ UNCHANGED <<batchVars, frameVars, engineVars, issued, repertoire, owners, invoker, nenq,
                   policyVars, database, env_state, live_envs, dbi_decls, budgets>>

\* ops_execute_operations enters _exec_ro_ops or _exec_rw_ops
ExecuteStart ==
    /\ pc = "idle"
    /\ n_ops # 0
    /\ pc' = "retry"
    /\ retry_count' = 0
    /\ res' = "-1"
    /\ txn' = NULL
    /\ i' = 0
    /\ dec' = "none"
    /\ addRc' = "none"
    /\ execRc' = "none"
    /\ initRc' = "none"
    /\ shutRc' = NoReturn
    /\ invoker' \in CallersOf(repertoire)
    /\ UNCHANGED <<batchVars, engineVars, issued, repertoire, owners, enqueuers, nenq,
                   policyVars, database, env_state, live_envs, dbi_decls, budgets>>

\* the process dies (stack exhausted, invalid write)
Crash ==
    /\ pc' = "crashed"
    /\ UNCHANGED <<batchVars, addRc, execRc, retry_count, res, txn, i, dec, engineVars, issued,
                   repertoire, callVars, nenq, sideVars>>

\* a variant that leaves res as the last attempt set it
KeepRes(r) == r

\* the value res has when the attempt budget is spent
ExhaustedRes(r) == "-EIO"

\* a variant that starts another attempt on every decision
RetryOnAny(d) == "retry"

\* where the retry loop goes on a decision other than SUCCESS
OnDecision(d) == IF d = "RETRY" THEN "retry" ELSE "fail"

\* a variant that resumes where the attempt before stopped
ResumeOp(failedAt) == failedAt

\* the index the loop of _exec_ops starts from; failedAt is where the loop of
\* the attempt before stopped
FirstOp(failedAt) == 0

\* label retry: the budget check and act_txn_begin
ExecBegin ==
    /\ pc = "retry"
    /\ UNCHANGED <<repertoire, callVars, nenq, sideVars>>
    /\ retry_count' = retry_count + 1
    /\ IF retry_count >= DB_LMDB_RETRY_OPS_EXEC
       THEN /\ res' = ExhaustedRes(res)
            /\ pc' = "fail"
            /\ UNCHANGED <<batchVars, addRc, execRc, txn, i, dec, engineVars, issued>>
       ELSE IF database.ptr = NULL \/ database.env = NULL
       THEN /\ dec' = "FAIL"
            /\ pc' = "fail"
            /\ UNCHANGED <<batchVars, addRc, execRc, res, txn, i, engineVars, issued>>
       ELSE IF BeginBlocks(_txn_type_from_batch_type)
       THEN /\ pc' = "blocked"
            /\ UNCHANGED <<batchVars, addRc, execRc, res, txn, i, dec, engineVars, issued>>
       ELSE \E st \in BeginStatuses(_txn_type_from_batch_type), ex \in ExpandOutcomes :
              IF st = "MDB_SUCCESS"
              THEN /\ txn' = NewTxn
                   /\ txns' = [txns EXCEPT ![NewTxn] = IF kind = "RO" THEN "ro" ELSE "rw"]
                   /\ wstore' = IF kind = "RO" THEN wstore ELSE committed
                   /\ dec' = "SUCCESS"
                   /\ pc' = "ops"
                   /\ i' = FirstOp(i)
                   /\ issued' = <<>>
                   /\ UNCHANGED <<batchVars, addRc, execRc, res, committed, mapsize>>
              ELSE LET sc == security_check(st, NULL, res, ex)
                   IN  /\ dec' = sc.dec
                       /\ res' = sc.err
                       /\ mapsize' = sc.size
                       /\ pc' = OnDecision(sc.dec)
                       /\ UNCHANGED <<batchVars, addRc, execRc, txn, i, txns, committed,
                                      wstore, issued>>

\* a variant that commits read-only batches too
AlwaysCommit(k) == "commit"

\* where the retry loop goes when every operation returned SUCCESS
AfterOps(k) == IF k = "RO" THEN "roend" ELSE "commit"

\* a variant of the loop increment that skips an operation
SkipOp(j) == j + 2

\* the increment of the loop of _exec_ops
NextOp(j) == j + 1

\* the switch of _exec_ops on what _exec_op returned for ops[i], and the
\* switch of the retry loop on what _exec_ops returned
OpDone(d, err) ==
    /\ dec' = d
    /\ res' = err
    /\ IF d = "SUCCESS"
       THEN /\ i' = NextOp(i)
            /\ pc' = IF NextOp(i) < n_ops THEN "ops" ELSE AfterOps(kind)
       ELSE /\ i' = i
            /\ pc' = OnDecision(d)
    /\ UNCHANGED <<addRc, execRc, retry_count, txn, repertoire, callVars, nenq, sideVars>>

\* a wrapper returns FAIL before it reaches the engine
FailEarly ==
    /\ OpDone("FAIL", res)
    /\ UNCHANGED <<batchVars, engineVars, issued>>

\* the engine answered st # MDB_SUCCESS to a data call on txn
OpRefused(st, ex) ==
    LET sc == security_check(st, txn, res, ex)
    IN  /\ txns' = IF sc.aborts THEN AbortTxn(txn) ELSE txns
        /\ wstore' = IF sc.aborts /\ txns[txn] = "rw" THEN committed ELSE wstore
        /\ mapsize' = sc.size
        /\ OpDone(sc.dec, sc.err)
        /\ UNCHANGED <<batchVars, committed>>

\* what a read past the end of DataBase->dbis can find: the descriptor of
\* an open database without write flags, or one whose handle is no database
StrayDbis == {[dbi |-> h, put_flags |-> {}] : h \in {0, DbiHandle(0)}}

\* dbi_t* dbi = &DataBase->dbis[dbi_idx] and the reads through it: the
\* descriptor itself, or for an index past the end of the array whatever
\* lies there, or a fault
DbiReads(dbi_idx) ==
    IF dbi_idx \in DOMAIN database.dbis
    THEN {[fault |-> FALSE, d |-> database.dbis[dbi_idx]]}
    ELSE {[fault |-> FALSE, d |-> x] : x \in StrayDbis}
         \cup {[fault |-> TRUE, d |-> [dbi |-> 0, put_flags |-> {}]]}

\* act_put(txn, &ops[i], &res)
act_put ==
    LET op == OpAt(i)
    IN  IF txn = NULL THEN FailEarly
        ELSE \E k \in Outcomes(_get_key(i)) :
          IF k.r = "diverge" THEN Crash
          ELSE IF k.r = "null" THEN FailEarly
          ELSE \E v \in Outcomes(_get_val(i)) :
            IF v.r = "diverge" THEN Crash
            ELSE IF v.r = "null" THEN FailEarly
            ELSE \E rd \in DbiReads(op.dbi) :
              IF rd.fault THEN Crash
              ELSE LET dbi == rd.d
                   IN  \E st \in PutStatuses(txn, dbi.dbi, k, dbi.put_flags),
                          ex \in ExpandOutcomes :
                         /\ issued' = Append(issued, Call("put", i, dbi.dbi, k, v))
                         /\ IF st = "MDB_SUCCESS"
                            THEN /\ wstore' = [wstore EXCEPT ![dbi.dbi][k.id] =
                                                  [id |-> v.id, size |-> v.size]]
                                 /\ OpDone("SUCCESS", res)
                                 /\ UNCHANGED <<batchVars, txns, committed, mapsize>>
                            ELSE OpRefused(st, ex)

\* ops_cache.ops with the value descriptor of ops[i] replaced
WithVal(v) == [ops EXCEPT ![i + 1].val = v]

\* a variant of _rw_cache_alloc that never refuses
AlwaysRoom(size) == TRUE

\* _rw_cache_alloc(size) finds room
CacheHasRoom(size) == ~(size > DB_LMDB_RW_OPS_CACHE_SIZE - rw_cache_used)

\* _exec_op after act_get returned SUCCESS and left v as the value descriptor
AfterGet(v) ==
    IF kind = "RW"
    THEN IF v.loc = NullPtr \/ v.size = 0
         THEN /\ ops' = WithVal(v)
              /\ OpDone("FAIL", "-EIO")
              /\ UNCHANGED <<kind, rw_cache_used>>
         ELSE IF v.size = 0 \/ ~CacheHasRoom(v.size)
         THEN /\ ops' = WithVal(v)
              /\ OpDone("FAIL", "-ENOMEM")
              /\ UNCHANGED <<kind, rw_cache_used>>
         ELSE /\ rw_cache_used' = rw_cache_used + v.size
              /\ ops' = WithVal([v EXCEPT !.loc = "cache"])
              /\ OpDone("SUCCESS", res)
              /\ UNCHANGED kind
    ELSE /\ ops' = WithVal(v)
         /\ OpDone("SUCCESS", res)
         /\ UNCHANGED <<kind, rw_cache_used>>

\* a variant of act_get that leaves the value descriptor as it was
StoreNothing(v, tmp_val) == v

\* the value descriptor v of a GET after act_get got tmp_val from the engine:
\* the bytes copied into the caller's buffer, or a shallow copy of tmp_val
StoreResult(v, tmp_val) ==
    IF v.kind = "PRESENT"
    THEN [v EXCEPT !.data = tmp_val.id, !.size = tmp_val.size]
    ELSE [DescNone EXCEPT !.kind = "PRESENT", !.size = tmp_val.size, !.data = tmp_val.id,
                          !.loc = "engine"]

\* act_get(txn, &ops[i], &res) followed by the GET branch of _exec_op
act_get ==
    LET op == OpAt(i)
    IN  IF txn = NULL THEN FailEarly
        ELSE \E k \in Outcomes(_get_key(i)) :
          IF k.r = "diverge" THEN Crash
          ELSE IF k.r = "null" THEN FailEarly
          ELSE \E st \in GetStatuses(txn, op.dbi, k), ex \in ExpandOutcomes :
            IF st # "MDB_SUCCESS"
            THEN /\ issued' = Append(issued, Call("get", i, op.dbi, k, NoVal))
                 /\ OpRefused(st, ex)
            ELSE LET tmp_val == View(txn)[op.dbi][k.id]
                 IN  IF op.val.kind = "PRESENT" /\ tmp_val.size > op.val.size
                     THEN /\ issued' = Append(issued, Call("get", i, op.dbi, k, tmp_val))
                          /\ OpDone("FAIL", res)
                          /\ UNCHANGED <<batchVars, engineVars>>
                     ELSE IF op.val.kind = "PRESENT" /\ op.val.loc = "engine"
                     THEN Crash
                     ELSE /\ issued' = Append(issued, Call("get", i, op.dbi, k, tmp_val))
                          /\ AfterGet(StoreResult(op.val, tmp_val))
                          /\ UNCHANGED engineVars

\* one turn of the loop of _exec_ops: _exec_op(txn, &ops[i], &res)
ExecOp ==
    /\ pc = "ops"
    /\ IF OpAt(i).type = "PUT" THEN act_put
       ELSE IF OpAt(i).type = "GET" THEN act_get
       ELSE FailEarly

\* the calls security_check makes on txn after mdb_txn_commit(txn) returned
\* st: none after a success or a logic failure, an mdb_txn_abort(txn) otherwise
AbortAfterCommit(st, ex) ==
    IF st # "MDB_SUCCESS" /\ security_check(st, txn, res, ex).aborts
    THEN <<Call("abort", i, 0, NoVal, NoVal)>>
    ELSE <<>>

\* act_txn_commit(txn, &res) of _exec_rw_ops.  The engine frees the
\* transaction whether or not the commit succeeds, so the abort the policy
\* then asks for acts on a freed handle: it passes unnoticed or kills the
\* process.
ExecCommit ==
    /\ pc = "commit"
    /\ UNCHANGED <<repertoire, callVars, nenq, sideVars>>
    /\ IF txn = NULL
       THEN /\ dec' = "FAIL"
            /\ pc' = "fail"
            /\ UNCHANGED <<batchVars, addRc, execRc, retry_count, res, txn, i, engineVars,
                           issued>>
       ELSE \E st \in CommitStatuses, ex \in ExpandOutcomes, ub \in {"unnoticed", "crash"} :
              /\ issued' = Append(issued, Call("commit", i, 0, NoVal, NoVal))
                              \o AbortAfterCommit(st, ex)
              /\ txns' = AbortTxn(txn)
              /\ UNCHANGED <<batchVars, addRc, execRc, retry_count, txn, i>>
              /\ IF st = "MDB_SUCCESS"
                 THEN /\ committed' = wstore
                      /\ dec' = "SUCCESS"
                      /\ res' = "0"
                      /\ pc' = "fail"
                      /\ UNCHANGED <<wstore, mapsize>>
                 ELSE LET sc == security_check(st, txn, res, ex)
                      IN  /\ wstore' = committed
                          /\ mapsize' = sc.size
                          /\ dec' = sc.dec
                          /\ res' = sc.err
                          /\ pc' = IF sc.aborts /\ ub = "crash" THEN "crashed"
                                   ELSE OnDecision(sc.dec)
                          /\ UNCHANGED committed

\* the end of a read-only attempt: mdb_txn_abort(txn); res = 0
ExecRoEnd ==
    /\ pc = "roend"
    /\ txns' = AbortTxn(txn)
    /\ res' = "0"
    /\ pc' = "fail"
    /\ UNCHANGED <<batchVars, addRc, execRc, retry_count, txn, i, dec, committed, wstore,
                   mapsize, issued, repertoire, callVars, nenq, sideVars>>

\* a variant of the wipe that reaches the global DataBase
WipedDataBase == NoDataBase
\* memset(&ops_cache, 0, sizeof(batch_t)): ops_cache is all it covers, the
\* global DataBase is what it was
UntouchedDataBase == database
\* memset(&ops_cache, 0, sizeof(batch_t))
WipedKind == "RO"
\* a variant that leaves the operations in the batch
KeptOps == ops
WipedOps == <<>>

\* label fail, and the return of ops_execute_operations
ExecReturn ==
    /\ pc = "fail"
    /\ kind' = WipedKind
    /\ ops' = WipedOps
    /\ rw_cache_used' = 0
    /\ execRc' = res
    /\ addRc' = "none"
    /\ pc' = "idle"
    /\ retry_count' = 0
    /\ res' = "-1"
    /\ txn' = NULL
    /\ i' = 0
    /\ dec' = "none"
    /\ issued' = <<>>
    /\ database' = UntouchedDataBase
    /\ owners' = [j \in 1..Len(ops') |-> owners[j]]
    /\ invoker' = NoCaller
    /\ enqueuers' = {}
    /\ UNCHANGED <<engineVars, repertoire, nenq, policyVars, env_state, live_envs, dbi_decls,
                   initRc, shutRc, budgets>>

\* the batch and the engine after db_core_init
Start ==
    /\ kind = "RO"
    /\ ops = <<>>
    /\ rw_cache_used = 0
    /\ addRc = "none"
    /\ execRc = "none"
    /\ pc = "idle"
    /\ retry_count = 0
    /\ res = "-1"
    /\ txn = NULL
    /\ i = 0
    /\ dec = "none"
    /\ txns = [h \in TxnHandles |-> "free"]
    /\ committed = [h \in UserHandles |-> EmptyDb]
    /\ wstore = [h \in UserHandles |-> EmptyDb]
    /\ mapsize = DB_MAP_SIZE_INIT
    /\ issued = <<>>
    /\ nenq = 0
    /\ engine_rc = "MDB_SUCCESS"
    /\ aborted = 0
    /\ earlier = NoCall
    /\ dbi_decls = <<>>
    /\ initRc = "none"
    /\ shutRc = NoReturn
    /\ budgets = NoBudgets
    /\ owners = <<>>
    /\ invoker = NoCaller
    /\ enqueuers = {}

\* the process after db_core_init returned 0
Initialized ==
    /\ database = DataBase
    /\ env_state = "open"
    /\ live_envs = 1

\* the process before the first db_core_init
Uninitialized ==
    /\ database = NoDataBase
    /\ env_state = "none"
    /\ live_envs = 0

Init == Start /\ Initialized /\ repertoire \in Repertoires

\* a behaviour of a caller who fills the batch
InitFill == Start /\ Initialized /\ repertoire = "fill"

Next ==
    \/ Enqueue
    \/ ExecuteEmpty
    \/ ExecuteStart
    \/ ExecBegin
    \/ ExecOp
    \/ ExecCommit
    \/ ExecRoEnd
    \/ ExecReturn

Spec == Init /\ [][Next]_vars

SpecFill == InitFill /\ [][Next]_vars

(***************************************************************************)
(* security_check called on its own, as the wrappers of ops_actions.c call *)
(* it: with the status the engine answered and either no transaction       *)
(* (act_txn_begin) or the live transaction of the attempt.                 *)
(***************************************************************************)
\* the statuses of the errno table, MDB_SUCCESS and statuses the table does
\* not know
PolicyStatuses ==
    {"MDB_SUCCESS", "MDB_NOTFOUND", "MDB_KEYEXIST", "MDB_MAP_FULL", "MDB_DBS_FULL",
     "MDB_READERS_FULL", "MDB_TXN_FULL", "MDB_CURSOR_FULL", "MDB_PAGE_FULL",
     "MDB_MAP_RESIZED", "MDB_INCOMPATIBLE", "MDB_VERSION_MISMATCH", "MDB_INVALID",
     "MDB_PAGE_NOTFOUND", "MDB_CORRUPTED", "MDB_PANIC", "MDB_BAD_RSLOT", "MDB_BAD_TXN",
     "MDB_BAD_VALSIZE", "MDB_BAD_DBI", "EINVAL", "EACCES", "ENOMEM"}

\* the caller has a status from the engine and no transaction, or a live
\* read-only or read-write one
PolicyArgs ==
    /\ pc \in {"caller", "judged"}
    /\ pc' = "policy"
    /\ engine_rc' \in PolicyStatuses
    /\ aborted' = 0
    /\ \E t \in {NULL} \cup TxnHandles, type \in {"ro", "rw"} :
         /\ txn' = t
         /\ txns' = [h \in TxnHandles |-> IF h = t THEN type ELSE "free"]
    /\ UNCHANGED <<batchVars, addRc, execRc, retry_count, res, i, dec, committed, wstore,
                   mapsize, issued, repertoire, callVars, nenq, earlier, lifeVars, budgets>>

\* dec = security_check(mdb_rc, txn, &res), mdb_rc being engine_rc
PolicyCheck ==
    /\ pc = "policy"
    /\ pc' = "judged"
    /\ \E ex \in ExpandOutcomes :
         LET sc == security_check(engine_rc, txn, res, ex)
         IN  /\ dec' = sc.dec
             /\ res' = sc.err
             /\ mapsize' = sc.size
             /\ txns' = IF sc.aborts THEN AbortTxn(txn) ELSE txns
             /\ aborted' = IF sc.aborts THEN 1 ELSE 0
             /\ \/ earlier' = earlier
                \/ /\ earlier = NoCall
                   /\ earlier' = [rc |-> engine_rc, present |-> (txn # NULL),
                                  dec |-> sc.dec, err |-> sc.err]
    /\ UNCHANGED <<batchVars, addRc, execRc, retry_count, txn, i, committed, wstore,
                   issued, repertoire, callVars, nenq, engine_rc, lifeVars, budgets>>

InitPolicy ==
    /\ kind = "RO"
    /\ ops = <<>>
    /\ rw_cache_used = 0
    /\ addRc = "none"
    /\ execRc = "none"
    /\ pc = "caller"
    /\ retry_count = 0
    /\ res = "-1"
    /\ txn = NULL
    /\ i = 0
    /\ dec = "none"
    /\ txns = [h \in TxnHandles |-> "free"]
    /\ committed = [h \in UserHandles |-> EmptyDb]
    /\ wstore = [h \in UserHandles |-> EmptyDb]
    /\ mapsize = DB_MAP_SIZE_INIT
    /\ issued = <<>>
    /\ repertoire = "plain"
    /\ nenq = 0
    /\ engine_rc = "MDB_SUCCESS"
    /\ aborted = 0
    /\ earlier = NoCall
    /\ Initialized
    /\ dbi_decls = <<>>
    /\ initRc = "none"
    /\ shutRc = NoReturn
    /\ budgets = NoBudgets
    /\ owners = <<>>
    /\ invoker = NoCaller
    /\ enqueuers = {}

NextPolicy ==
    \/ PolicyArgs
    \/ PolicyCheck

SpecPolicy == InitPolicy /\ [][NextPolicy]_vars

(***************************************************************************)
(* core.c: db_core_init, db_core_shutdown and db_core_add_op, with         *)
(* ops_init.c and dbi_int.c.  The global DataBase starts NULL.             *)
(***************************************************************************)
\* the declarations a db_core_init call may carry
MaxDecl == 2

\* dbi_type_t as the set of its bits
DeclTypes == {{"NOOVERWRITE"}, {"APPENDABLE", "DUPSORT"}}

\* one entry of dbi_names / dbi_types; named is FALSE for a NULL or empty name
Decls == [named : {TRUE}, type : DeclTypes] \cup {[named |-> FALSE, type |-> {}]}

\* the number of db_core_add_op calls in a behaviour
MaxAdd == 2

\* calloc(n_dbis, sizeof(dbi_t))
ZeroDbi == [dbi |-> 0, db_flags |-> {}, put_flags |-> {}, is_dupsort |-> FALSE,
            is_dupfixed |-> FALSE]

dbi_open_flags_from_type(type) ==
    {"MDB_CREATE"} \cup (IF "DUPSORT" \in type THEN {"MDB_DUPSORT"} ELSE {})
                   \cup (IF "DUPFIXED" \in type THEN {"MDB_DUPFIXED"} ELSE {})

dbi_put_flags_from_type(type) ==
    (IF "NOOVERWRITE" \in type THEN {"MDB_NOOVERWRITE"} ELSE {})
    \cup (IF "APPENDABLE" \in type
          THEN (IF "DUPSORT" \in type THEN {"MDB_APPENDDUP"} ELSE {"MDB_APPEND"})
          ELSE {})

dbi_desc_default_put_flags(db_flags) ==
    IF "MDB_DUPSORT" \in db_flags THEN {"MDB_NODUPDATA"} ELSE {"MDB_NOOVERWRITE"}

\* the behaviours of repertoire "use" have an engine that refuses no call of
\* db_core_init; in the others every call of it can fail
FailPoints(n) == IF repertoire = "use" THEN {0} ELSE 0..n
InitStatuses(S) == IF repertoire = "use" THEN S \cap {"MDB_SUCCESS"} ELSE S

\* the statuses with which the engine refuses an environment or a DBI call
InitFailStatuses == {"MDB_MAP_RESIZED", "MDB_DBS_FULL", "EINVAL"}

\* the engine calls of ops_init_env, in order
EnvCalls == <<"mdb_env_create", "mdb_env_set_maxdbs", "mdb_env_set_mapsize", "mdb_env_open">>

\* the first k of the engine calls of ops_init_env
EnvCallsUpTo(k) == [n \in 1..k |-> EnvCalls[n]]

\* a variant of db_core_init that starts over on RETRY
RetryInit(d, again) == IF d = "RETRY" THEN again ELSE "init_fail"

\* db_core_init on a decision other than SUCCESS: goto fail
InitOnDecision(d, again) == "init_fail"

\* a variant of db_core_init that builds over a live DataBase
NeverInitialized == FALSE

\* if(DataBase) return -EALREADY
AlreadyInitialized == database.ptr # NULL

\* db_core_init up to DataBase = new_DataBase: -EALREADY on a live DataBase,
\* -EINVAL on an invalid argument, -ENOMEM when calloc fails
InitCall ==
    /\ pc = "idle"
    /\ addRc' = "none"
    /\ shutRc' = NoReturn
    /\ IF AlreadyInitialized
       THEN /\ initRc' = "-EALREADY"
            /\ UNCHANGED <<pc, res, txn, i, dec, issued, database, dbi_decls>>
       ELSE \/ /\ initRc' \in {"-EINVAL", "-ENOMEM"}
               /\ UNCHANGED <<pc, res, txn, i, dec, issued, database, dbi_decls>>
            \/ \E n \in 1..MaxDecl : \E decls \in [1..n -> Decls] :
                 /\ initRc' = "none"
                 /\ database' = [ptr |-> 1, env |-> NULL, n_dbis |-> n,
                                 dbis |-> [j \in 0..(n - 1) |-> ZeroDbi],
                                 map_size_bytes_max |-> DB_MAP_SIZE_MAX]
                 /\ dbi_decls' = decls
                 /\ res' = "-EINVAL"
                 /\ txn' = NULL
                 /\ i' = 0
                 /\ dec' = "none"
                 /\ issued' = <<>>
                 /\ pc' = "init_env"
    /\ execRc' = "none"
    /\ UNCHANGED <<batchVars, retry_count, engineVars, repertoire, callVars, nenq, policyVars, budgets,
                   env_state, live_envs>>

\* ops_init_env: the four engine calls, the first failAt - 1 of which succeed
InitEnv ==
    /\ pc = "init_env"
    /\ \E failAt \in FailPoints(4), st \in InitFailStatuses, ex \in ExpandOutcomes :
         IF failAt = 0
         THEN /\ issued' = issued \o EnvCalls
              /\ database' = [database EXCEPT !.env = 1]
              /\ env_state' = "open"
              /\ live_envs' = live_envs + 1
              /\ mapsize' = DB_MAP_SIZE_INIT
              /\ dec' = "SUCCESS"
              /\ pc' = "init_txn"
              /\ UNCHANGED res
         ELSE LET sc == security_check(st, NULL, res, ex)
              IN  /\ issued' = issued \o EnvCallsUpTo(failAt)
                  /\ database' = [database EXCEPT !.env = IF failAt = 1 THEN NULL ELSE 1]
                  /\ env_state' = IF failAt = 1 THEN "none" ELSE "created"
                  /\ live_envs' = IF failAt = 1 THEN live_envs ELSE live_envs + 1
                  /\ dec' = sc.dec
                  /\ res' = sc.err
                  /\ pc' = InitOnDecision(sc.dec, "init_env")
                  /\ UNCHANGED mapsize
    /\ UNCHANGED <<batchVars, addRc, execRc, retry_count, txn, i, txns, committed, wstore,
                   repertoire, callVars, nenq, policyVars, budgets, dbi_decls, initRc, shutRc>>

\* act_txn_begin(&txn, 0, out_err)
InitTxnBegin ==
    /\ pc = "init_txn"
    /\ \E st \in InitStatuses(BeginStatuses("0")), ex \in ExpandOutcomes :
         /\ issued' = Append(issued, "mdb_txn_begin")
         /\ IF st = "MDB_SUCCESS"
            THEN /\ txn' = NewTxn
                 /\ txns' = [txns EXCEPT ![NewTxn] = "rw"]
                 /\ dec' = "SUCCESS"
                 /\ pc' = "init_dbi"
                 /\ UNCHANGED res
            ELSE LET sc == security_check(st, NULL, res, ex)
                 IN  /\ dec' = sc.dec
                     /\ res' = sc.err
                     /\ pc' = InitOnDecision(sc.dec, "init_txn")
                     /\ UNCHANGED <<txn, txns>>
    /\ UNCHANGED <<batchVars, addRc, execRc, retry_count, i, committed, wstore, mapsize,
                   repertoire, callVars, nenq, policyVars, budgets, database, env_state, live_envs, dbi_decls,
                   initRc, shutRc>>

\* the descriptor of dbi i once mdb_dbi_open and mdb_dbi_flags have succeeded
OpenedDbi(type) ==
    LET db_flags == dbi_open_flags_from_type(type) \ {"MDB_CREATE"}
    IN  [dbi |-> DbiHandle(i), db_flags |-> db_flags,
         put_flags |-> dbi_desc_default_put_flags(db_flags),
         is_dupsort |-> ("MDB_DUPSORT" \in db_flags),
         is_dupfixed |-> ("MDB_DUPFIXED" \in db_flags)]

\* one turn of the loop of db_core_init over the declarations: the name check
\* and ops_init_dbi(txn, name, i, type, out_err)
InitDbi ==
    /\ pc = "init_dbi"
    /\ LET decl == dbi_decls[i + 1]
       IN  IF ~decl.named
           THEN /\ res' = "-EINVAL"
                /\ pc' = "init_fail"
                /\ UNCHANGED <<i, dec, txns, issued, database>>
           ELSE \E failAt \in FailPoints(2), st \in InitFailStatuses, ex \in ExpandOutcomes :
                  IF failAt = 0
                  THEN /\ issued' = issued \o <<"mdb_dbi_open", "mdb_dbi_flags">>
                       /\ database' = [database EXCEPT !.dbis[i] = OpenedDbi(decl.type)]
                       /\ dec' = "SUCCESS"
                       /\ i' = i + 1
                       /\ pc' = IF i + 1 < database.n_dbis THEN "init_dbi" ELSE "init_commit"
                       /\ UNCHANGED <<res, txns>>
                  ELSE LET sc == security_check(st, txn, res, ex)
                       IN  /\ issued' = issued \o (IF failAt = 1 THEN <<"mdb_dbi_open">>
                                                   ELSE <<"mdb_dbi_open", "mdb_dbi_flags">>)
                           /\ database' = IF failAt = 1 THEN database
                                          ELSE [database EXCEPT !.dbis[i].dbi = DbiHandle(i)]
                           /\ txns' = IF sc.aborts THEN AbortTxn(txn) ELSE txns
                           /\ dec' = sc.dec
                           /\ res' = sc.err
                           /\ pc' = InitOnDecision(sc.dec, "init_txn")
                           /\ UNCHANGED i
    /\ UNCHANGED <<batchVars, addRc, execRc, retry_count, txn, committed, wstore, mapsize,
                   repertoire, callVars, nenq, policyVars, budgets, env_state, live_envs, dbi_decls, initRc,
                   shutRc>>

\* act_txn_commit(txn, out_err) and the return 0 behind it.  mdb_txn_commit
\* frees the transaction whether or not it succeeds, so the abort the policy
\* asks for after a failure acts on a freed handle.
InitCommit ==
    /\ pc = "init_commit"
    /\ \E st \in InitStatuses(CommitStatuses), ex \in ExpandOutcomes,
          ub \in {"unnoticed", "crash"} :
         /\ issued' = Append(issued, "mdb_txn_commit")
         /\ txns' = AbortTxn(txn)
         /\ IF st = "MDB_SUCCESS"
            THEN /\ dec' = "SUCCESS"
                 /\ initRc' = "0"
                 /\ pc' = "idle"
                 /\ UNCHANGED <<res, mapsize>>
            ELSE LET sc == security_check(st, txn, res, ex)
                 IN  /\ dec' = sc.dec
                     /\ res' = sc.err
                     /\ mapsize' = sc.size
                     /\ initRc' = initRc
                     /\ pc' = IF sc.aborts /\ ub = "crash" THEN "crashed"
                              ELSE InitOnDecision(sc.dec, "init_txn")
    /\ UNCHANGED <<batchVars, addRc, execRc, retry_count, txn, i, committed, wstore,
                   repertoire, callVars, nenq, policyVars, budgets, database, env_state, live_envs, dbi_decls,
                   shutRc>>

\* a variant of db_core_shutdown that keeps the global pointer
KeepDataBase == database

\* DataBase after db_core_shutdown: freed, and the global pointer NULL
ClearedDataBase == NoDataBase

\* the body of db_core_shutdown on a DataBase that is not NULL: the DBIs and
\* the environment are closed, which ends every transaction of the
\* environment, and DataBase is freed and cleared; the declarations it was
\* built from are forgotten with it
Teardown ==
    /\ database' = ClearedDataBase
    /\ dbi_decls' = <<>>
    /\ env_state' = "none"
    /\ live_envs' = IF database.env # NULL THEN live_envs - 1 ELSE live_envs
    /\ txns' = IF database.env # NULL THEN [h \in TxnHandles |-> "free"] ELSE txns

\* a variant of the fail label that returns without tearing down
NoTeardown == UNCHANGED <<database, dbi_decls, env_state, live_envs, txns>>

\* fail: (void)db_core_shutdown()
FailTeardown == Teardown

\* what db_core_shutdown returns when mdb_env_info answered st
FinalMapsize(st) == IF database.env # NULL /\ st = "MDB_SUCCESS" THEN mapsize ELSE 0

\* fail: (void)db_core_shutdown(); return out_err_val.  mdb_env_info reads
\* the meta pages of the environment, which an environment that was created
\* but not opened does not have.
InitFail ==
    /\ pc = "init_fail"
    /\ \E ub \in {"unnoticed", "crash"} :
         IF database.env # NULL /\ env_state # "open" /\ ub = "crash"
         THEN /\ pc' = "crashed"
              /\ UNCHANGED <<txn, i, dec, txns, database, env_state, live_envs, dbi_decls,
                             initRc>>
         ELSE /\ FailTeardown
              /\ initRc' = res
              /\ txn' = NULL
              /\ i' = 0
              /\ dec' = "none"
              /\ pc' = "idle"
    /\ UNCHANGED <<batchVars, addRc, execRc, retry_count, res, committed, wstore,
                   mapsize, issued, repertoire, callVars, nenq, policyVars, budgets, shutRc>>

\* db_core_shutdown called by the application
db_core_shutdown ==
    /\ pc = "idle"
    /\ addRc' = "none"
    /\ initRc' = "none"
    /\ IF database.ptr = NULL
       THEN /\ shutRc' = [returned |-> TRUE, size |-> 0]
            /\ UNCHANGED <<txns, database, env_state, live_envs, dbi_decls>>
       ELSE \E st \in {"MDB_SUCCESS", "EINVAL"} :
              /\ shutRc' = [returned |-> TRUE, size |-> FinalMapsize(st)]
              /\ Teardown
    /\ execRc' = "none"
    /\ UNCHANGED <<batchVars, frameVars, committed, wstore, mapsize, issued,
                   repertoire, callVars, nenq, policyVars, budgets>>

\* a variant of db_core_add_op without the check
NeverRejected(dbi_idx) == FALSE

\* db_core_add_op's check of the global DataBase and of the DBI index
AddOpRejected(dbi_idx) == database.ptr = NULL \/ dbi_idx >= database.n_dbis

\* ops_get_next_op: the next free slot of the batch, NULL when there is none
ops_get_next_op == IF n_ops >= OPS_CACHE_SIZE THEN NULL ELSE n_ops + 1

\* the DBI indices the callers of db_core_add_op name: every index up to the
\* largest number of DBIs, or in the behaviours of repertoire "use" the first
\* DBI and the third
AddIdxInputs == IF repertoire = "use" THEN {0, 2} ELSE 0..MaxDecl

\* db_core_add_op(dbi_idx, type, key, ...) with a key and a value that
\* _prepare_op_key_and_val accepts
db_core_add_op ==
    /\ pc = "idle"
    /\ nenq < MaxAdd
    /\ nenq' = nenq + 1
    /\ initRc' = "none"
    /\ shutRc' = NoReturn
    /\ \E dbi_idx \in AddIdxInputs, operation \in FillOps :
         IF AddOpRejected(dbi_idx)
         THEN /\ addRc' = "-EINVAL"
              /\ UNCHANGED batchVars
         ELSE IF ops_get_next_op = NULL
         THEN /\ addRc' = "-ENOMEM"
              /\ UNCHANGED batchVars
         ELSE ops_add_operation([operation EXCEPT !.dbi = dbi_idx])
    /\ execRc' = "none"
    /\ UNCHANGED <<frameVars, engineVars, issued, repertoire, callVars, policyVars, budgets, database,
                   env_state, live_envs, dbi_decls>>

InitLife ==
    /\ Start
    /\ Uninitialized
    /\ repertoire = "fill"

NextLife ==
    \/ InitCall
    \/ InitEnv
    \/ InitTxnBegin
    \/ InitDbi
    \/ InitCommit
    \/ InitFail
    \/ db_core_shutdown
    \/ db_core_add_op

SpecLife == InitLife /\ [][NextLife]_vars

(***************************************************************************)
(* db_lmdb_dbi.c and db_lmdb_core.c: db_lmdb_dbi_init, the registry        *)
(* initialization with retry budgets, called by db_lmdb_init on a          *)
(* DataBase whose environment is open.                                     *)
(***************************************************************************)
DB_LMDB_RETRY_TRANSACTION == 2
DB_LMDB_RETRY_DBI_OPEN == 3
DB_LMDB_RETRY_DBI_FLAGS == 3

\* the retry cases of _safety_check
SafeRetryCases ==
    {"MDB_MAP_RESIZED", "MDB_PAGE_FULL", "MDB_TXN_FULL", "MDB_CURSOR_FULL",
     "MDB_BAD_RSLOT", "MDB_READERS_FULL"}

\* _safety_check(mdb_rc, is_write_txn, &budget, out_err, t): the action, the
\* budget it leaves, whether it calls mdb_txn_abort(t), and *out_err.
\* expanded says whether db_env_mapsize_expand returns 0.
_safety_check(mdb_rc, budget, t, expanded) ==
    LET err == _map_mdb_err_to_errno(mdb_rc)
        fatal == [act |-> "FAIL", budget |-> budget, aborts |-> (t # NULL), err |-> err]
    IN  IF mdb_rc = "MDB_SUCCESS"
        THEN [act |-> "OK", budget |-> budget, aborts |-> FALSE, err |-> err]
        ELSE IF t = NULL THEN fatal
        ELSE IF mdb_rc \in {"MDB_NOTFOUND", "MDB_KEYEXIST"}
        THEN [act |-> "FAIL", budget |-> budget, aborts |-> FALSE, err |-> err]
        ELSE IF mdb_rc \in SafeRetryCases \/ (mdb_rc = "MDB_MAP_FULL" /\ expanded)
        THEN IF budget = 0 THEN fatal
             ELSE [act |-> "RETRY", budget |-> budget - 1, aborts |-> TRUE, err |-> err]
        ELSE fatal

\* an entry of the log of engine calls made by db_lmdb_dbi_init
RegCallOf(name, idx) == [call |-> name, idx |-> idx]

\* n entries of the log for mdb_txn_commit
Repeated(name, n) == [k \in 1..n |-> RegCallOf(name, 0)]

\* the statuses of mdb_dbi_open and mdb_dbi_flags
RegStatuses == {"MDB_SUCCESS", "MDB_MAP_RESIZED", "MDB_DBS_FULL"}

\* db_lmdb_init up to its call of db_lmdb_dbi_init, and db_lmdb_dbi_init up
\* to the retry label
RegCall ==
    /\ pc = "idle"
    /\ initRc' = "none"
    /\ \E n \in 1..MaxDecl : \E decls \in [1..n -> Decls] :
         /\ database' = [ptr |-> 1, env |-> 1, n_dbis |-> n,
                         dbis |-> [j \in 0..(n - 1) |-> ZeroDbi],
                         map_size_bytes_max |-> DB_MAP_SIZE_MAX]
         /\ dbi_decls' = decls
    /\ budgets' = [open |-> DB_LMDB_RETRY_DBI_OPEN, flags |-> DB_LMDB_RETRY_DBI_FLAGS,
                   txn |-> DB_LMDB_RETRY_TRANSACTION]
    /\ res' = "-1"
    /\ txn' = NULL
    /\ i' = 0
    /\ dec' = "none"
    /\ issued' = <<>>
    /\ txns' = [h \in TxnHandles |-> "free"]
    /\ pc' = "reg_begin"
    /\ UNCHANGED <<batchVars, addRc, execRc, retry_count, committed, wstore, mapsize,
                   repertoire, callVars, nenq, policyVars, env_state, live_envs, shutRc>>

\* db_lmdb_txn_begin_safe with its own retry loop: retried failures of
\* mdb_txn_begin, then a success or a failure that ends the loop.  Each
\* failure hands out_txn, the address of the caller's pointer, to
\* _safety_check as the transaction, which calls mdb_txn_abort on it.
\* The log starts again with each transaction: it holds the calls made
\* with the transaction in txn.
RegBegin ==
    /\ pc = "reg_begin"
    /\ \E retried \in 0..budgets.txn, last \in {"MDB_SUCCESS", "MDB_PANIC"},
          ub \in {"unnoticed", "crash"} :
         /\ issued' = <<RegCallOf("mdb_txn_begin", 0)>>
         /\ budgets' = [budgets EXCEPT !.txn = budgets.txn - retried]
         /\ res' = IF last # "MDB_SUCCESS" THEN _map_mdb_err_to_errno(last)
                   ELSE IF retried > 0 THEN _map_mdb_err_to_errno("MDB_READERS_FULL")
                   ELSE res
         /\ IF (retried > 0 \/ last # "MDB_SUCCESS") /\ ub = "crash"
            THEN /\ pc' = "crashed"
                 /\ UNCHANGED <<txn, txns, dec>>
            ELSE IF last = "MDB_SUCCESS"
            THEN /\ txn' = NewTxn
                 /\ txns' = [txns EXCEPT ![NewTxn] = "rw"]
                 /\ dec' = "OK"
                 /\ pc' = IF i < database.n_dbis THEN "reg_dbi" ELSE "reg_commit"
            ELSE /\ dec' = "FAIL"
                 /\ pc' = "reg_fail"
                 /\ UNCHANGED <<txn, txns>>
    /\ UNCHANGED <<batchVars, addRc, execRc, retry_count, i, committed, wstore, mapsize,
                   repertoire, callVars, nenq, policyVars, lifeVars>>

\* one turn of the loop over the declarations: _dbi_init_one for index
\* opened_dbi_idx, and the switch on its answer.  On RETRY the code jumps
\* to the retry label with opened_dbi_idx as it is.
RegDbi ==
    /\ pc = "reg_dbi"
    /\ LET decl == dbi_decls[i + 1]
       IN  IF ~decl.named
           THEN /\ res' = "-EINVAL"
                /\ dec' = "FAIL"
                /\ pc' = "reg_fail"
                /\ UNCHANGED <<i, txns, issued, database, budgets>>
           ELSE \E st1 \in RegStatuses, st2 \in RegStatuses, expanded \in BOOLEAN :
                  LET o == _safety_check(st1, budgets.open, txn, expanded)
                      f == _safety_check(st2, budgets.flags, txn, expanded)
                  IN  IF o.act # "OK"
                      THEN /\ issued' = Append(issued, RegCallOf("mdb_dbi_open", i))
                           /\ budgets' = [budgets EXCEPT !.open = o.budget]
                           /\ txns' = IF o.aborts THEN AbortTxn(txn) ELSE txns
                           /\ res' = o.err
                           /\ dec' = o.act
                           /\ pc' = IF o.act = "RETRY" THEN "reg_begin" ELSE "reg_fail"
                           /\ UNCHANGED <<i, database>>
                      ELSE IF f.act # "OK"
                      THEN /\ issued' = issued \o <<RegCallOf("mdb_dbi_open", i),
                                                     RegCallOf("mdb_dbi_flags", i)>>
                           /\ budgets' = [budgets EXCEPT !.flags = f.budget]
                           /\ txns' = IF f.aborts THEN AbortTxn(txn) ELSE txns
                           /\ res' = f.err
                           /\ dec' = f.act
                           /\ pc' = IF f.act = "RETRY" THEN "reg_begin" ELSE "reg_fail"
                           /\ UNCHANGED <<i, database>>
                      ELSE /\ issued' = issued \o <<RegCallOf("mdb_dbi_open", i),
                                                     RegCallOf("mdb_dbi_flags", i)>>
                           /\ database' = [database EXCEPT !.dbis[i] = OpenedDbi(decl.type)]
                           /\ res' = "0"
                           /\ dec' = "OK"
                           /\ i' = i + 1
                           /\ pc' = IF i + 1 < database.n_dbis THEN "reg_dbi"
                                    ELSE "reg_commit"
                           /\ UNCHANGED <<txns, budgets>>
    /\ UNCHANGED <<batchVars, addRc, execRc, retry_count, txn, committed, wstore, mapsize,
                   repertoire, callVars, nenq, policyVars, env_state, live_envs, dbi_decls, initRc,
                   shutRc>>

\* db_lmdb_txn_commit_safe with its own retry loop, and the return 0 behind
\* it.  mdb_txn_commit frees the transaction whatever it returns, so after a
\* failure both the abort of _safety_check and a repeated mdb_txn_commit act
\* on a freed transaction.  The loop never hands RETRY to its caller.
RegCommit ==
    /\ pc = "reg_commit"
    /\ \E retried \in 0..budgets.txn, last \in {"MDB_SUCCESS", "MDB_PANIC"},
          ub \in {"unnoticed", "crash"} :
         /\ issued' = issued \o Repeated("mdb_txn_commit", retried + 1)
         /\ budgets' = [budgets EXCEPT !.txn = budgets.txn - retried]
         /\ txns' = AbortTxn(txn)
         /\ res' = IF last # "MDB_SUCCESS" THEN _map_mdb_err_to_errno(last)
                   ELSE IF retried > 0 THEN _map_mdb_err_to_errno("MDB_MAP_RESIZED")
                   ELSE res
         /\ IF (retried > 0 \/ last # "MDB_SUCCESS") /\ ub = "crash"
            THEN /\ pc' = "crashed"
                 /\ UNCHANGED <<dec, initRc>>
            ELSE IF last = "MDB_SUCCESS"
            THEN /\ dec' = "OK"
                 /\ initRc' = "0"
                 /\ pc' = "idle"
            ELSE /\ dec' = "FAIL"
                 /\ pc' = "reg_fail"
                 /\ UNCHANGED initRc
    /\ UNCHANGED <<batchVars, addRc, execRc, retry_count, txn, i, committed, wstore, mapsize,
                   repertoire, callVars, nenq, policyVars, database, env_state, live_envs, dbi_decls,
                   shutRc>>

\* fail: return res
RegFail ==
    /\ pc = "reg_fail"
    /\ initRc' = res
    /\ pc' = "idle"
    /\ UNCHANGED <<batchVars, addRc, execRc, retry_count, res, txn, i, dec, engineVars, issued,
                   repertoire, callVars, nenq, policyVars, database, env_state, live_envs, dbi_decls,
                   shutRc, budgets>>

InitRegistry ==
    /\ kind = "RO"
    /\ ops = <<>>
    /\ rw_cache_used = 0
    /\ addRc = "none"
    /\ execRc = "none"
    /\ pc = "idle"
    /\ retry_count = 0
    /\ res = "-1"
    /\ txn = NULL
    /\ i = 0
    /\ dec = "none"
    /\ txns = [h \in TxnHandles |-> "free"]
    /\ committed = [h \in UserHandles |-> EmptyDb]
    /\ wstore = [h \in UserHandles |-> EmptyDb]
    /\ mapsize = DB_MAP_SIZE_INIT
    /\ issued = <<>>
    /\ repertoire = "fill"
    /\ nenq = 0
    /\ engine_rc = "MDB_SUCCESS"
    /\ aborted = 0
    /\ earlier = NoCall
    /\ database = [NoDataBase EXCEPT !.ptr = 1, !.env = 1,
                                     !.map_size_bytes_max = DB_MAP_SIZE_MAX]
    /\ env_state = "open"
    /\ live_envs = 1
    /\ dbi_decls = <<>>
    /\ initRc = "none"
    /\ shutRc = NoReturn
    /\ budgets = NoBudgets
    /\ owners = <<>>
    /\ invoker = NoCaller
    /\ enqueuers = {}

NextRegistry ==
    \/ RegCall
    \/ RegBegin
    \/ RegDbi
    \/ RegCommit
    \/ RegFail

SpecRegistry == InitRegistry /\ [][NextRegistry]_vars
(***************************************************************************)
(* Properties.                                                             *)
(***************************************************************************)

\* C1: whenever ops_execute_operations returns from a non-empty batch,
\* whatever the outcome, the batch holds no operation and is classified
\* read-only again.
C1_BatchClearedOnReturn ==
    [][(pc = "fail" /\ pc' = "idle") => (Len(ops') = 0 /\ kind' = "RO")]_vars

\* an execute of a read-write batch has just returned Conflict, and the batch
\* is empty and read-only
C1_Witness ==
    pc = "idle" /\ execRc = "-EEXIST" /\ n_ops = 0 /\ kind = "RO"

\* C2: right after an execute returned Conflict (-EEXIST), the next
\* read-write batch can begin its transaction: no write transaction is left
\* open to hold the writer lock.
C2_ConflictLeavesWriterFree ==
    (pc = "idle" /\ execRc = "-EEXIST") => ~BeginBlocks("0")

\* C3: when execute returns, the transaction it began has been ended.
C3_TxnEndedOnReturn ==
    [][(pc = "fail" /\ pc' = "idle" /\ txn # NULL) => txns'[txn] = "free"]_vars

\* C4: ops_add_operation of an operation whose key or value is a Lookup with
\* index >= n_ops returns -EINVAL and leaves the operations of the batch as
\* they were.
C4_LookupIndexValidated ==
    [][\A operation \in OpInputs(repertoire) :
         (/\ pc = "idle"
          /\ nenq' = nenq + 1
          /\ ops_add_operation(operation)
          /\ \/ operation.key.kind = "LOOKUP" /\ operation.key.op_index >= n_ops
             \/ operation.val.kind = "LOOKUP" /\ operation.val.op_index >= n_ops)
         => (addRc' = "-EINVAL" /\ ops' = ops)]_vars

\* C5: in a batch of accepted operations the resolution of every key and of
\* every value ends, after following at most n_ops back-references.
C5_ResolutionTerminates ==
    \A j \in 0..(n_ops - 1) :
        /\ _get_key(j).r # "diverge" /\ _get_key(j).steps <= n_ops
        /\ _get_val(j).r # "diverge" /\ _get_val(j).steps <= n_ops
C7_ExecuteTerminatesWithinBudget ==
    /\ pc # "blocked"
    /\ pc = "ops" => retry_count <= DB_LMDB_RETRY_OPS_EXEC

C9_RetryRestartsWholeBatch ==
    /\ pc = "ops" =>
         /\ Len(issued) = i
         /\ \A n \in 1..Len(issued) : issued[n].pos = n - 1 /\ issued[n].txn = txn
         /\ txns[txn] # "free"
    /\ (pc = "retry" /\ retry_count >= 1 /\ txn # NULL) =>
         /\ txns[txn] = "free"
         /\ kind = "RW" => wstore = committed

\* the first attempt ended in RETRY at a PUT (transaction full); the second
\* attempt has issued operation 0 again and is about to issue operation 1
C9_Witness ==
    /\ pc = "ops"
    /\ retry_count = 2
    /\ res = "-EOVERFLOW"
    /\ i = 1
    /\ Len(issued) = 1

\* C10: when an operation returns FAIL, execute goes to its return: no
\* operation after position i is issued, no commit is issued, the next step is
\* the return, which changes nothing in the engine and gives a non-zero code.
C10_FailStopsAtOnce ==
    [][/\ (pc = "ops" /\ dec' = "FAIL") =>
            /\ pc' = "fail"
            /\ res' # "0"
            /\ i' = i
            /\ Len(issued') <= i + 1
            /\ \A n \in 1..Len(issued') : issued'[n].call # "commit"
       /\ (pc = "fail" /\ dec = "FAIL") =>
            /\ pc' = "idle"
            /\ execRc' = res
            /\ execRc' # "0"
            /\ engineVars' = engineVars]_vars

\* operation 0 of a two-operation batch returned FAIL in the first attempt,
\* and operation 1 was not issued
C10_Witness ==
    /\ pc = "fail"
    /\ dec = "FAIL"
    /\ retry_count = 1
    /\ n_ops = 2
    /\ i = 0
    /\ Len(issued) = 1
\* C11: while the batch holds a PUT it is classified read-write, whatever was
\* enqueued after the PUT, and the transaction execute begins for a
\* read-write batch is a write transaction.
C11_ClassificationSticky ==
    /\ (\E j \in 0..(n_ops - 1) : OpAt(j).type = "PUT") => kind = "RW"
    /\ (pc = "ops" /\ kind = "RW") => txns[txn] = "rw"

\* a batch [PUT, GET] is being executed in a write transaction
C11_Witness ==
    /\ pc = "ops"
    /\ n_ops = 2
    /\ OpAt(0).type = "PUT"
    /\ OpAt(1).type = "GET"
    /\ txns[txn] = "rw"

\* C12: the batch never holds more than OPS_CACHE_SIZE operations, and an
\* ops_add_operation on a batch that holds OPS_CACHE_SIZE operations, for an
\* operation that passes the lookup check, returns -ENOMEM and leaves the
\* operations as they were.
C12_CapacityEnforced ==
    [][/\ Len(ops') <= OPS_CACHE_SIZE
       /\ \A operation \in OpInputs(repertoire) :
            (/\ pc = "idle"
             /\ nenq' = nenq + 1
             /\ n_ops = OPS_CACHE_SIZE
             /\ ops_add_operation(operation)
             /\ ~LookupRejected(operation))
            => (addRc' = "-ENOMEM" /\ ops' = ops)]_vars

\* the ninth ops_add_operation was refused and the batch still holds eight
C12_Witness ==
    pc = "idle" /\ addRc = "-ENOMEM" /\ n_ops = OPS_CACHE_SIZE /\ nenq = OPS_CACHE_SIZE + 1
\* C13: a GET for DBI index d reads the sub-database a PUT for DBI index d
\* writes: every mdb_get is issued on the engine handle DataBase->dbis[d].dbi.
C13_GetUsesDbiOfIndex ==
    \A n \in 1..Len(issued) :
        issued[n].call = "get" =>
            issued[n].dbi = DataBase.dbis[OpAt(issued[n].pos).dbi].dbi

\* C14: in a read-write batch the scratch buffer never overflows, the value
\* of every GET that returned SUCCESS lies in the scratch buffer with the
\* size and content the engine returned, and a GET whose value finds too
\* little room returns FAIL with -ENOMEM.
C14_ScratchCopyInFull ==
    /\ rw_cache_used <= DB_LMDB_RW_OPS_CACHE_SIZE
    /\ (kind = "RW" /\ pc \in {"ops", "commit"}) =>
         \A n \in 1..Len(issued) :
             issued[n].call = "get" =>
                 LET v == OpAt(issued[n].pos).val
                 IN  /\ v.kind = "PRESENT"
                     /\ v.loc = "cache"
                     /\ v.data = issued[n].val.id
                     /\ v.size = issued[n].val.size
    /\ (/\ kind = "RW"
        /\ pc = "fail"
        /\ issued # <<>>
        /\ issued[Len(issued)].call = "get"
        /\ issued[Len(issued)].pos = i
        /\ issued[Len(issued)].val # NoVal
        /\ OpAt(i).val.kind = "PRESENT"
        /\ OpAt(i).val.size = issued[Len(issued)].val.size
        /\ issued[Len(issued)].val.size > DB_LMDB_RW_OPS_CACHE_SIZE - rw_cache_used)
       => (dec = "FAIL" /\ res = "-ENOMEM")

\* a read-write batch [GET, PUT] is about to commit with the GET's value, all
\* LargeSize bytes of it, in the scratch buffer
C14_Witness ==
    /\ pc = "commit"
    /\ kind = "RW"
    /\ rw_cache_used = LargeSize
    /\ issued[1].call = "get"
    /\ issued[1].val = B2
    /\ OpAt(0).val.loc = "cache"
    /\ OpAt(0).val.size = LargeSize

\* C15: a read-only batch never issues a commit, and when all its operations
\* returned SUCCESS its transaction is ended and execute returns 0; a
\* read-write batch returns 0 only when the last call was a commit that
\* succeeded.
C15_RoAbortsRwCommits ==
    /\ kind = "RO" => \A n \in 1..Len(issued) : issued[n].call # "commit"
    /\ (pc = "fail" /\ kind = "RO" /\ dec = "SUCCESS") => (res = "0" /\ txns[txn] = "free")
    /\ (pc = "fail" /\ kind = "RW" /\ res = "0") =>
         /\ issued # <<>>
         /\ issued[Len(issued)].call = "commit"
         /\ dec = "SUCCESS"
         /\ txns[txn] = "free"
         /\ committed = wstore

\* a read-only batch whose GET succeeded is about to return 0, its
\* transaction ended without a commit
C15_Witness ==
    /\ pc = "fail"
    /\ kind = "RO"
    /\ res = "0"
    /\ Len(issued) = 1
    /\ issued[1].call = "get"
    /\ issued[1].val = B2
    /\ txns[txn] = "free"

\* C16: within an attempt, the call for the operation at position i is
\* issued when exactly the calls for positions 0..i-1 have been issued, all
\* on the attempt's transaction, and the decision before it was SUCCESS.
C16_IssuedInEnqueueOrder ==
    [][(pc = "ops" /\ Len(issued') = Len(issued) + 1) =>
         LET c == issued'[Len(issued')]
         IN  /\ c.pos = i
             /\ c.pos = Len(issued)
             /\ c.txn = txn
             /\ dec = "SUCCESS"
             /\ \A n \in 1..Len(issued) : issued[n].pos = n - 1 /\ issued[n].txn = txn]_vars

\* the third operation of a batch is about to be issued after the first two,
\* in order on one transaction
C16_Witness ==
    /\ pc = "ops"
    /\ i = 2
    /\ Len(issued) = 2
    /\ issued[1].pos = 0 /\ issued[2].pos = 1
    /\ issued[1].txn = txn /\ issued[2].txn = txn

\* C17: for MDB_NOTFOUND and MDB_KEYEXIST security_check returns FAIL, leaves
\* -ENOENT and -EEXIST in the error code, and makes no mdb_txn_abort call: a
\* transaction it was given is still open.
C17_LogicFailureKeepsTxn ==
    (pc = "judged" /\ engine_rc \in {"MDB_NOTFOUND", "MDB_KEYEXIST"}) =>
        /\ dec = "FAIL"
        /\ res = (IF engine_rc = "MDB_NOTFOUND" THEN "-ENOENT" ELSE "-EEXIST")
        /\ aborted = 0
        /\ txn # NULL => txns[txn] # "free"

\* security_check has judged MDB_KEYEXIST on an open write transaction
C17_Witness ==
    /\ pc = "judged"
    /\ engine_rc = "MDB_KEYEXIST"
    /\ txn # NULL
    /\ txns[txn] = "rw"
    /\ dec = "FAIL"
    /\ res = "-EEXIST"

\* C18: for each of the six transient statuses security_check returns RETRY
\* with the code of the errno table, and it has called mdb_txn_abort once on
\* the transaction it was given, or not at all when it was given none.
C18_TransientAbortsOnceAndRetries ==
    (/\ pc = "judged"
     /\ engine_rc \in {"MDB_MAP_RESIZED", "MDB_PAGE_FULL", "MDB_TXN_FULL", "MDB_CURSOR_FULL",
                       "MDB_BAD_RSLOT", "MDB_READERS_FULL"}) =>
        /\ dec = "RETRY"
        /\ res = _map_mdb_err_to_errno(engine_rc)
        /\ res \in {"-EAGAIN", "-ENOSPC", "-EOVERFLOW", "-EBUSY"}
        /\ aborted = (IF txn # NULL THEN 1 ELSE 0)
        /\ txn # NULL => txns[txn] = "free"

\* security_check has judged MDB_BAD_RSLOT on a read-only transaction and
\* aborted it
C18_Witness ==
    /\ pc = "judged"
    /\ engine_rc = "MDB_BAD_RSLOT"
    /\ txn # NULL
    /\ txns[txn] = "free"
    /\ aborted = 1
    /\ dec = "RETRY"
    /\ res = "-EBUSY"

\* C19: a security_check call on MDB_MAP_FULL aborts the transaction it was
\* given and returns RETRY or FAIL; it returns RETRY exactly when twice the
\* map size is within DB_MAP_SIZE_MAX and the map has been resized to it, and
\* when it returns FAIL the map size is what it was.
C19_MapFullDoublesOrFails ==
    [][(pc = "policy" /\ engine_rc = "MDB_MAP_FULL") =>
         /\ aborted' = (IF txn # NULL THEN 1 ELSE 0)
         /\ txn # NULL => txns'[txn] = "free"
         /\ dec' \in {"RETRY", "FAIL"}
         /\ dec' = "RETRY" <=> (mapsize * 2 <= DB_MAP_SIZE_MAX /\ mapsize' = mapsize * 2)
         /\ dec' = "FAIL" => mapsize' = mapsize]_vars

\* the map has been doubled up to DB_MAP_SIZE_MAX and security_check has
\* answered a further MDB_MAP_FULL with FAIL after aborting the transaction
C19_Witness ==
    /\ pc = "judged"
    /\ engine_rc = "MDB_MAP_FULL"
    /\ mapsize = DB_MAP_SIZE_MAX
    /\ txn # NULL
    /\ aborted = 1
    /\ dec = "FAIL"

\* C20: for a status that is not MDB_SUCCESS, not MDB_NOTFOUND or
\* MDB_KEYEXIST, not one of the six transient statuses and not MDB_MAP_FULL,
\* security_check returns FAIL, and it has called mdb_txn_abort once on the
\* transaction it was given, or not at all when it was given none.
C20_OtherStatusAbortsOnceAndFails ==
    (/\ pc = "judged"
     /\ engine_rc \notin {"MDB_SUCCESS", "MDB_NOTFOUND", "MDB_KEYEXIST", "MDB_MAP_FULL",
                          "MDB_MAP_RESIZED", "MDB_PAGE_FULL", "MDB_TXN_FULL",
                          "MDB_CURSOR_FULL", "MDB_BAD_RSLOT", "MDB_READERS_FULL"}) =>
        /\ dec = "FAIL"
        /\ aborted = (IF txn # NULL THEN 1 ELSE 0)
        /\ txn # NULL => txns[txn] = "free"

\* security_check has judged MDB_CORRUPTED on an open write transaction and
\* aborted it
C20_Witness ==
    /\ pc = "judged"
    /\ engine_rc = "MDB_CORRUPTED"
    /\ txn # NULL
    /\ txns[txn] = "free"
    /\ aborted = 1
    /\ dec = "FAIL"
    /\ res = "-EIO"

\* C21: a call of security_check with the status and the transaction
\* presence of an earlier call returns the decision of the earlier call and,
\* for a status other than MDB_SUCCESS, leaves the same error code.
C21_SameArgsSameAnswer ==
    (/\ pc = "judged"
     /\ earlier # NoCall
     /\ earlier.rc = engine_rc
     /\ earlier.present = (txn # NULL)) =>
        /\ dec = earlier.dec
        /\ engine_rc # "MDB_SUCCESS" => res = earlier.err

\* C21 (amended): the error code depends on the status alone, and so does the
\* decision for every status but MDB_MAP_FULL, whose decision is RETRY or
\* FAIL according to the map size and the outcome of the resize.
C21_SameAnswerButMapFull ==
    (/\ pc = "judged"
     /\ earlier # NoCall
     /\ earlier.rc = engine_rc
     /\ earlier.present = (txn # NULL)) =>
        /\ engine_rc # "MDB_MAP_FULL" => dec = earlier.dec
        /\ engine_rc = "MDB_MAP_FULL" => {dec, earlier.dec} \subseteq {"RETRY", "FAIL"}
        /\ engine_rc # "MDB_SUCCESS" => res = earlier.err

\* MDB_PAGE_FULL is judged a second time, with a transaction as the first
\* time, after the map has grown in between
C21_Witness ==
    /\ pc = "judged"
    /\ earlier.rc = "MDB_PAGE_FULL"
    /\ earlier.present
    /\ engine_rc = "MDB_PAGE_FULL"
    /\ txn # NULL
    /\ mapsize > DB_MAP_SIZE_INIT
    /\ dec = "RETRY"
    /\ earlier.dec = "RETRY"

\* C28: a GET into a caller's buffer that is smaller than the stored value
\* returns FAIL with -EINVAL and leaves the buffer as it was; a GET into a
\* buffer that is large enough leaves the stored bytes and their size in its
\* descriptor.
C28_BufferTooSmallIsEinval ==
    /\ (/\ pc = "fail"
        /\ dec = "FAIL"
        /\ issued # <<>>
        /\ issued[Len(issued)].call = "get"
        /\ issued[Len(issued)].pos = i
        /\ issued[Len(issued)].val # [id |-> NoVal.id, size |-> NoVal.size]
        /\ OpAt(i).val.kind = "PRESENT"
        /\ OpAt(i).val.loc = "user"
        /\ issued[Len(issued)].val.size > OpAt(i).val.size)
       => (res = "-EINVAL" /\ OpAt(i).val.data = 0)
    /\ (pc \in {"ops", "roend", "commit"}) =>
         \A n \in 1..Len(issued) :
             (issued[n].call = "get" /\ OpAt(issued[n].pos).val.loc = "user") =>
                 /\ OpAt(issued[n].pos).val.data = issued[n].val.id
                 /\ OpAt(issued[n].pos).val.size = issued[n].val.size

\* C29: a GET that returned SUCCESS holds a PRESENT value descriptor with the
\* bytes and the size the engine returned, and a later call of the attempt
\* whose key or value is a lookup of that GET's value is issued with these
\* bytes and this size.
C29_GetResultFeedsLookups ==
    (pc \in {"ops", "roend", "commit"}) =>
        \A m \in 1..Len(issued) :
            issued[m].call = "get" =>
                /\ OpAt(issued[m].pos).val.kind = "PRESENT"
                /\ OpAt(issued[m].pos).val.data = issued[m].val.id
                /\ OpAt(issued[m].pos).val.size = issued[m].val.size
                /\ \A n \in (m + 1)..Len(issued) :
                     LET later == OpAt(issued[n].pos)
                     IN  /\ (/\ later.key.kind = "LOOKUP"
                             /\ later.key.src_type = "VAL"
                             /\ issued[n].pos - later.key.op_index = issued[m].pos)
                            => issued[n].key = issued[m].val
                         /\ (/\ issued[n].call = "put"
                             /\ later.val.kind = "LOOKUP"
                             /\ later.val.src_type = "VAL"
                             /\ issued[n].pos - later.val.op_index = issued[m].pos)
                            => issued[n].val = issued[m].val

\* a PUT whose key is a lookup of the value of the GET before it has been
\* issued with the bytes that GET returned
C29_Witness ==
    /\ pc \in {"ops", "commit"}
    /\ Len(issued) = 2
    /\ issued[1].call = "get"
    /\ issued[1].val = B2
    /\ issued[2].call = "put"
    /\ OpAt(1).key.kind = "LOOKUP"
    /\ OpAt(1).key.src_type = "VAL"
    /\ OpAt(1).key.op_index = 1
    /\ issued[2].key = B2

(***************************************************************************)
(* Lifecycle properties (SpecLife).                                        *)
(***************************************************************************)
\* C22: every db_core_shutdown call returns.  Made on a live DataBase it
\* clears the global pointer, closes the environment with all its
\* transactions, and returns the map size or 0; made while DataBase is NULL
\* it returns 0 and changes nothing.
C22_ShutdownTearsDownOrIsNoOp ==
    [][shutRc'.returned =>
         IF database.ptr # NULL
         THEN /\ database' = NoDataBase
              /\ env_state' = "none"
              /\ live_envs' = 0
              /\ \A h \in TxnHandles : txns'[h] = "free"
              /\ shutRc'.size \in {0, mapsize}
         ELSE /\ shutRc'.size = 0
              /\ UNCHANGED <<database, env_state, live_envs, dbi_decls, batchVars,
                             engineVars>>]_vars

\* a shutdown has torn down a live environment and returned its map size
C22_Witness ==
    /\ shutRc.returned
    /\ shutRc.size = DB_MAP_SIZE_INIT
    /\ database = NoDataBase
    /\ Len(issued) > 0

\* what initRc holds when db_core_init has not just failed: no return, the
\* code of success, and the refusal of a second initialization
NotFailedInit == {"none", "0", "-EALREADY"}

\* C23: when db_core_init returns an error, whichever step failed, DataBase
\* is NULL, no engine environment is left open or allocated, no transaction
\* is live, and the next db_core_init is not answered -EALREADY.
C23_FailedInitLeavesNothing ==
    /\ [](pc = "idle" /\ initRc \notin NotFailedInit
            => /\ database = NoDataBase
               /\ env_state = "none"
               /\ live_envs = 0
               /\ \A h \in TxnHandles : txns[h] = "free")
    /\ [][pc = "idle" /\ initRc \notin NotFailedInit => initRc' # "-EALREADY"]_vars

\* db_core_init has returned the code of a failed mdb_dbi_flags, after the
\* environment was opened, a transaction begun and a DBI opened
C23_Witness ==
    /\ pc = "idle"
    /\ initRc = "-EAGAIN"
    /\ Len(issued) > 0
    /\ issued[Len(issued)] = "mdb_dbi_flags"
    /\ database = NoDataBase

\* C24: a db_core_init call made while DataBase is live returns -EALREADY and
\* leaves DataBase, its DBI descriptors and the environment as they were;
\* the engine never holds more than one environment.
C24_SecondInitRefused ==
    /\ [](live_envs <= 1)
    /\ [][pc = "idle" /\ database.ptr # NULL /\ initRc' # "none"
           => /\ initRc' = "-EALREADY"
              /\ UNCHANGED <<database, env_state, live_envs, dbi_decls, engineVars>>]_vars

\* a second db_core_init has been refused while the environment of the first is open
C24_Witness ==
    /\ initRc = "-EALREADY"
    /\ database.ptr # NULL
    /\ env_state = "open"
    /\ live_envs = 1
    /\ database.dbis[0].dbi # 0

\* the number of times the call named c occurs in the log
Issued(c) == Cardinality({n \in 1..Len(issued) : issued[n] = c})

\* C25: within one db_core_init, mdb_env_create, mdb_env_set_maxdbs,
\* mdb_env_set_mapsize and mdb_env_open are each called at most once, and a
\* decision of ops_init_env other than SUCCESS, RETRY included, leads to the
\* fail label and from there to an error return.
C25_EnvCallsOnceNeverRetried ==
    /\ [](\A n \in 1..Len(EnvCalls) : Issued(EnvCalls[n]) <= 1)
    /\ [][pc = "init_env" /\ dec' # "SUCCESS" => pc' = "init_fail"]_vars
    /\ [][pc = "init_fail" /\ pc' = "idle" => initRc' \notin NotFailedInit]_vars

\* db_core_init has returned the code of an environment call that the policy
\* answered with RETRY
C25_Witness ==
    /\ pc = "idle"
    /\ initRc = "-EAGAIN"
    /\ issued = EnvCallsUpTo(3)

\* C27: after a successful db_core_init the put_flags of every DBI are those
\* dbi_put_flags_from_type derives from its declared type: MDB_NOOVERWRITE
\* for NOOVERWRITE, MDB_APPEND or (with DUPSORT) MDB_APPENDDUP for
\* APPENDABLE, nothing otherwise.
C27_PutFlagsFromDeclaredType ==
    pc = "idle" /\ initRc = "0"
        => \A j \in 0..(database.n_dbis - 1) :
             database.dbis[j].put_flags = dbi_put_flags_from_type(dbi_decls[j + 1].type)

\* C30: a db_core_add_op call made while DataBase is NULL returns -EINVAL;
\* a call that returns an error leaves the batch as it was; and a call that
\* adds to the batch was made on a live DataBase with a DBI index below
\* n_dbis, which is the index the added operation carries.
C30_AddOpRejectsBadTarget ==
    [][nenq' # nenq
         => /\ database.ptr = NULL => addRc' = "-EINVAL"
            /\ addRc' # "0" => UNCHANGED batchVars
            /\ addRc' = "0"
                 => /\ database.ptr # NULL
                    /\ Len(ops') = Len(ops) + 1
                    /\ ops'[Len(ops')].dbi < database.n_dbis]_vars

\* the last call was a db_core_add_op on a live DataBase of one DBI, refused
\* for its DBI index, and the batch is still empty
C30_Witness ==
    /\ addRc = "-EINVAL"
    /\ database.ptr # NULL
    /\ database.n_dbis = 1
    /\ nenq > 0
    /\ Len(ops) = 0

(***************************************************************************)
(* Registry initialization with retry (SpecRegistry).                      *)
(***************************************************************************)
\* C26: when a step of db_lmdb_dbi_init answers RETRY, the next step begins
\* a new transaction and the loop over the declarations starts again at the
\* first one.
C26_RetryRestartsFromFirst ==
    [][dec' = "RETRY" /\ pc \in {"reg_dbi", "reg_commit"}
         => pc' = "reg_begin" /\ i' = 0]_vars

(***************************************************************************)
(* Batch bookkeeping across calls and attempts.                            *)
(***************************************************************************)
\* C36: an ops_add_operation call that returns an error leaves kind, the
\* operations and the scratch usage as they were, and a batch that holds
\* only GETs is executed in a read-only transaction.
C36_RejectedEnqueueChangesNothing ==
    /\ [][nenq' # nenq /\ addRc' # "0" => UNCHANGED batchVars]_vars
    /\ []((pc = "ops" /\ \A j \in 0..(n_ops - 1) : OpAt(j).type = "GET")
            => txns[txn] = "ro")

\* C40: when act_txn_begin returns RETRY or FAIL to the retry loop, the
\* loop's transaction pointer is NULL, on the first attempt and on the
\* attempts that follow an aborted transaction.
C40_FailedBeginLeavesNull ==
    [][(/\ pc = "retry"
        /\ retry_count < DB_LMDB_RETRY_OPS_EXEC
        /\ pc' \in {"retry", "fail"})
       => txn' = NULL]_vars

\* C34: when execute comes to an operation of the batch, the resolution of
\* its key, and for a PUT of its value, follows Lookup references only to
\* positions 0 .. n_ops - 1 of ops_cache.ops.
C34_ResolutionStaysInBatch ==
    pc = "ops"
        => /\ _get_key(i).r # "oob"
           /\ OpAt(i).type = "PUT" /\ _get_key(i).r = "ok" => _get_val(i).r # "oob"

\* C33: at the start of every attempt of the retry loop the scratch buffer
\* rw_cache is unused and every operation of the batch is one of the
\* operations as the callers enqueued them: no value descriptor has been
\* rewritten by a GET of an attempt that was cut short.
C33_RetryStartsClean ==
    pc = "retry"
        => /\ rw_cache_used = 0
           /\ \A j \in 0..(n_ops - 1) : OpAt(j) \in OpInputs(repertoire)

\* C35: when the retry loop reaches its fail label after a step that
\* answered FAIL, res holds the error code that step mapped, not the
\* placeholder -1 the loop started with.
C35_FailureCodeIsMapped ==
    pc = "fail" /\ dec = "FAIL" => res # "-1"

\* C38: a step of execute in which the error policy changes the map size of
\* the environment leaves no transaction of this layer open, neither the
\* one that met the full map nor one begun by an earlier execute.
C38_ResizeWithNoOpenTxn ==
    [][(pc \in {"retry", "ops", "commit"} /\ mapsize' # mapsize)
          => \A h \in TxnHandles : txns'[h] = "free"]_vars

\* C32: once mdb_txn_commit has been called on a transaction, no further
\* commit or abort is called on that transaction, whatever the commit
\* returned.
C32_TxnEndedOnce ==
    \A a, b \in 1..Len(issued) :
        (a < b /\ issued[a].call = "commit" /\ issued[b].txn = issued[a].txn)
            => issued[b].call \notin {"commit", "abort"}

(* The global DataBase under enqueue and execute. *)
\* C31: on an initialized environment no step of ops_add_operation or of
\* ops_execute_operations changes DataBase->env, DataBase->n_dbis or a
\* descriptor of DataBase->dbis.
C31_BatchKeepsEnvironment ==
    [][/\ database'.ptr = database.ptr
       /\ database'.env = database.env
       /\ database'.n_dbis = database.n_dbis
       /\ database'.dbis = database.dbis]_vars

\* an execute that met a full map, had the policy double the map size and
\* then committed has returned 0, and DataBase is the one init built
C31_Witness ==
    /\ pc = "idle"
    /\ execRc = "0"
    /\ mapsize > DB_MAP_SIZE_INIT
    /\ database = DataBase

(***************************************************************************)
(* The public interface of core.c as a whole: db_core_init, db_core_add_op,*)
(* db_core_exec_ops and db_core_shutdown in any order, on an engine that   *)
(* refuses no call of db_core_init.                                        *)
(***************************************************************************)
NextUse ==
    \/ InitCall
    \/ InitEnv
    \/ InitTxnBegin
    \/ InitDbi
    \/ InitCommit
    \/ db_core_shutdown
    \/ db_core_add_op
    \/ ExecuteEmpty
    \/ ExecuteStart
    \/ ExecBegin
    \/ ExecOp
    \/ ExecCommit
    \/ ExecRoEnd
    \/ ExecReturn

\* the application has initialized the environment and goes on from there
InitUse ==
    /\ Start
    /\ Initialized
    /\ repertoire = "use"

SpecUse == InitUse /\ [][NextUse]_vars

\* C37: when execute is about to issue operation i to the engine, the DBI
\* index of the operation is below DataBase->n_dbis of the environment that
\* is initialized now, whatever init, add, shutdown and execute calls came
\* before.
C37_ExecutedOpsTargetLiveDbi ==
    (pc = "ops" /\ txn # NULL) => OpAt(i).dbi < database.n_dbis

(***************************************************************************)
(* Several callers on the one batch.  A call of ops_add_operation is one   *)
(* step and ops_execute_operations runs from ExecuteStart to ExecReturn    *)
(* with no other call in between: the calls are serialized.               *)
(***************************************************************************)
InitShared ==
    /\ Start
    /\ Initialized
    /\ repertoire = "shared"

SpecShared == InitShared /\ [][Next]_vars

\* an execute call is in progress
Executing == pc \in {"retry", "ops", "commit", "roend", "fail"}

\* the statement of C39 with serialized calls only: while an execute is in
\* progress every operation of the batch was enqueued by its caller
C39_ExecuteRunsOwnOps ==
    Executing => \A j \in 1..Len(owners) : owners[j] = invoker

\* C39: when callers share the batch and, since the last execute returned,
\* the caller of an execute is the only one who called ops_add_operation,
\* then the execute works on exactly the operations that caller enqueued:
\* every operation of the batch is one of its own, so it neither runs nor
\* discards an operation of another caller.
C39_OwnSessionRunsOwnOps ==
    (Executing /\ enqueuers \subseteq {invoker})
        => /\ Len(owners) = n_ops
           /\ \A j \in 1..Len(owners) : owners[j] = invoker

\* every operation of a batch of two that caller 2 enqueued and executes has
\* returned SUCCESS, after an execute of another batch has committed a value
C39_Witness ==
    /\ pc \in {"commit", "roend"}
    /\ invoker = 2
    /\ owners = <<2, 2>>
    /\ enqueuers = {2}
    /\ \E h \in UserHandles : committed[h] # EmptyDb

====
